---- MODULE Spec2Model ----
(***************************************************************************)
(* Storage engine of the portfolio site: the transient MemStorage and the  *)
(* persistent DatabaseStorage behind the IStorage contract.                 *)
(*                                                                         *)
(* One process holds one store (`export const storage = new ...`), so     *)
(* impl is chosen in Init and never changes.  The collections are maps     *)
(* from key to record; for the persistent store they stand for the tables  *)
(* of shared/schema.ts and the id counters for their serial sequences.     *)
(* Every field value is a string, except ids and timestamps (integers).    *)
(***************************************************************************)
EXTENDS Integers, Sequences, FiniteSets, TLC

\* ---------------------------------------------------------------- bounds
\* Highest id a counter / sequence hands out.
MaxId == 2
\* Highest reading of the millisecond clock.
MaxTime == 1
\* The longest title the slug derivation is applied to.
MaxTitleLen == 3

\* ------------------------------------------------------- JavaScript values
Null == "<null>"
Undefined == "<undefined>"

\* Property read: a key the object does not carry reads as undefined.
Get(obj, f) == IF f \in DOMAIN obj THEN obj[f] ELSE Undefined

\* The falsy values among the strings of the model.
Falsy(x) == x \in {Undefined, Null, ""}

\* a || b
Or(a, b) == IF Falsy(a) THEN b ELSE a

\* Map.set(k, v) / Map.delete(k) on a map kept as a function.
MapSet(m, k, v) == [x \in DOMAIN m \cup {k} |-> IF x = k THEN v ELSE m[x]]
MapDelete(m, k) == [x \in DOMAIN m \ {k} |-> m[x]]

\* { ...a, ...b }: keys of both, b wins.
Spread(a, b) == [f \in DOMAIN a \cup DOMAIN b |-> IF f \in DOMAIN b THEN b[f] ELSE a[f]]

Max(S) == CHOOSE x \in S : \A y \in S : y <= x

\* ------------------------------------------------------------------ state
VARIABLES
    impl,           \* "mem" (MemStorage) or "db" (DatabaseStorage)
    now,            \* the clock read by new Date() / now()
    users,          \* id -> User
    projects,       \* id -> Project
    media,          \* id -> Media
    contacts,       \* id -> ContactSubmission
    nextProjectId,
    nextMediaId,
    nextContactId,
    issued,         \* history: the ids each create call returned, in call order
    last,           \* history: the last call, see Call
    env,            \* process.env.NODE_ENV of the server process
    samples,        \* the createProject calls initializeSampleData has completed
    res             \* history: the last request and the response it got

store == <<users, projects, media, contacts, nextProjectId, nextMediaId, nextContactId>>
\* What only the server around the store reads and writes.
appVars == <<env, samples, res>>
vars == <<impl, now, users, projects, media, contacts,
          nextProjectId, nextMediaId, nextContactId, issued, last, env, samples, res>>

\* A clock reading taken at or after `from`: time may or may not have moved on
\* by a millisecond since the previous reading.
Readings(from) == {t \in {from, from + 1} : t <= MaxTime}

\* The record of a call: its operation, payload, target id, the kind of error it
\* raised ("none" when it returned), what it returned, and whether a record was
\* stored under the target id when it was made.
Call(op, arg, id, err, ret) ==
    [op |-> op, arg |-> arg, id |-> id, err |-> err, ret |-> ret, hit |-> FALSE]

Target(call, m) == [call EXCEPT !.hit = call.id \in DOMAIN m]

\* No request has been answered.
NoResponse == [route |-> "none", session |-> "none", status |-> 0, body |-> Null, calls |-> 0]

\* A store as its constructor leaves it, used directly: no sample data, no
\* requests.
Init ==
    /\ impl \in {"mem", "db"}
    /\ now = 0
    /\ users = << >>
    /\ projects = << >>
    /\ media = << >>
    /\ contacts = << >>
    /\ nextProjectId = 1
    /\ nextMediaId = 1
    /\ nextContactId = 1
    /\ issued = [projects |-> << >>, media |-> << >>, contacts |-> << >>]
    /\ last = Call("init", Null, 0, "none", Null)
    /\ env = "development"
    /\ samples = 0
    /\ res = NoResponse

\* --------------------------------------------------------------- projects
\* The record createProject builds.
NewProject(id, projectData, t1, t2) ==
    [id |-> id,
     title |-> Get(projectData, "title"),
     slug |-> Get(projectData, "slug"),
     description |-> Get(projectData, "description"),
     content |-> Get(projectData, "content"),
     featuredImage |-> Or(Get(projectData, "featuredImage"), Null),
     category |-> Get(projectData, "category"),
     tags |-> Or(Get(projectData, "tags"), Null),
     status |-> Or(Get(projectData, "status"), "draft"),
     authorId |-> Or(Get(projectData, "authorId"), Null),
     createdAt |-> t1,
     updatedAt |-> t2]

\* A createProject that hands out the lowest id above the live ones.
MemCreateProjectReclaim(projectData, t1, t2) ==
    /\ impl = "mem"
    /\ nextProjectId <= MaxId + samples
    /\ LET id == IF DOMAIN projects = {} THEN 1 ELSE Max(DOMAIN projects) + 1
           project == NewProject(id, projectData, t1, t2)
       IN /\ nextProjectId' = nextProjectId + 1
          /\ projects' = MapSet(projects, id, project)
          /\ issued' = [issued EXCEPT !.projects = Append(@, id)]
          /\ last' = Call("createProject", projectData, 0, "none", project)
    /\ now' = t2
    /\ UNCHANGED <<impl, users, media, contacts, nextMediaId, nextContactId>>

\* MemStorage.createProject: two clock readings, t1 then t2.
MemCreateProject(projectData, t1, t2) ==
    /\ impl = "mem"
    /\ nextProjectId <= MaxId + samples
    /\ LET id == nextProjectId
           project == NewProject(id, projectData, t1, t2)
       IN /\ nextProjectId' = nextProjectId + 1
          /\ projects' = MapSet(projects, id, project)
          /\ issued' = [issued EXCEPT !.projects = Append(@, id)]
          /\ last' = Call("createProject", projectData, 0, "none", project)
    /\ now' = t2
    /\ UNCHANGED <<impl, users, media, contacts, nextMediaId, nextContactId>>

\* The row INSERT INTO projects stores: a column the payload does not carry gets
\* its default (status 'draft', the timestamps now()) or NULL.
NewProjectRow(id, project, t) ==
    [id |-> id,
     title |-> Get(project, "title"),
     slug |-> Get(project, "slug"),
     description |-> Get(project, "description"),
     content |-> Get(project, "content"),
     featuredImage |-> IF "featuredImage" \in DOMAIN project THEN project.featuredImage ELSE Null,
     category |-> Get(project, "category"),
     tags |-> IF "tags" \in DOMAIN project THEN project.tags ELSE Null,
     status |-> IF "status" \in DOMAIN project THEN project.status ELSE "draft",
     authorId |-> IF "authorId" \in DOMAIN project THEN project.authorId ELSE Null,
     createdAt |-> t,
     updatedAt |-> t]

\* The constraints of the projects table that a row must meet: NOT NULL columns,
\* slug unique among the other rows, author_id referencing users.id.
NotNullColumns == {"title", "slug", "description", "content", "category", "status"}

ProjectRowError(row, others) ==
    IF \E f \in NotNullColumns : row[f] \in {Null, Undefined} THEN "NotNullError"
    ELSE IF \E k \in DOMAIN others : others[k].slug = row.slug THEN "ConflictError"
    ELSE IF row.authorId # Null /\ row.authorId \notin DOMAIN users THEN "ForeignKeyError"
    ELSE "none"

\* DatabaseStorage.createProject: the serial sequence advances whether or not the
\* insert succeeds; a constraint failure is raised to the caller.
DbCreateProject(project, t) ==
    /\ impl = "db"
    /\ nextProjectId <= MaxId
    /\ LET id == nextProjectId
           row == NewProjectRow(id, project, t)
           err == ProjectRowError(row, projects)
       IN /\ nextProjectId' = nextProjectId + 1
          /\ IF err = "none"
             THEN /\ projects' = MapSet(projects, id, row)
                  /\ issued' = [issued EXCEPT !.projects = Append(@, id)]
                  /\ last' = Call("createProject", project, 0, "none", row)
                  /\ now' = t
             ELSE /\ last' = Call("createProject", project, 0, err, Undefined)
                  /\ UNCHANGED <<projects, issued, now>>
    /\ UNCHANGED <<impl, users, media, contacts, nextMediaId, nextContactId>>

\* An updateProject that rebuilds the record from the payload, the way upsertUser
\* does, instead of merging it into the existing one.
MergeProjectRebuild(existing, projectData, t) ==
    [NewProject(existing.id, projectData, t, t) EXCEPT !.createdAt = existing.createdAt]

\* The record updateProject stores: { ...existing, ...projectData, updatedAt }.
MergeProject(existing, projectData, t) ==
    [Spread(existing, projectData) EXCEPT !.updatedAt = t]

\* MemStorage.updateProject
MemUpdateProject(id, projectData, t) ==
    /\ impl = "mem"
    /\ IF id \notin DOMAIN projects
       THEN /\ last' = Target(Call("updateProject", projectData, id, "NotFoundError", Undefined), projects)
            /\ UNCHANGED <<projects, now>>
       ELSE LET updated == MergeProject(projects[id], projectData, t)
            IN /\ projects' = MapSet(projects, id, updated)
               /\ last' = Target(Call("updateProject", projectData, id, "none", updated), projects)
               /\ now' = t
    /\ UNCHANGED <<impl, users, media, contacts,
                   nextProjectId, nextMediaId, nextContactId, issued>>

\* DatabaseStorage.updateProject: UPDATE ... WHERE id = $1 RETURNING *; with no
\* matching row the statement succeeds and the first returned row is undefined.
DbUpdateProject(id, project, t) ==
    /\ impl = "db"
    /\ IF id \notin DOMAIN projects
       THEN /\ last' = Target(Call("updateProject", project, id, "none", Undefined), projects)
            /\ UNCHANGED <<projects, now>>
       ELSE LET row == MergeProject(projects[id], project, t)
                err == ProjectRowError(row, MapDelete(projects, id))
            IN IF err = "none"
               THEN /\ projects' = MapSet(projects, id, row)
                    /\ last' = Target(Call("updateProject", project, id, "none", row), projects)
                    /\ now' = t
               ELSE /\ last' = Target(Call("updateProject", project, id, err, Undefined), projects)
                    /\ UNCHANGED <<projects, now>>
    /\ UNCHANGED <<impl, users, media, contacts,
                   nextProjectId, nextMediaId, nextContactId, issued>>

\* A deleteProject that refuses an absent id.
DeleteProjectStrict(id) ==
    /\ IF id \in DOMAIN projects
       THEN /\ projects' = MapDelete(projects, id)
            /\ last' = Target(Call("deleteProject", Null, id, "none", Undefined), projects)
       ELSE /\ last' = Target(Call("deleteProject", Null, id, "NotFoundError", Undefined), projects)
            /\ UNCHANGED projects
    /\ UNCHANGED <<impl, now, users, media, contacts,
                   nextProjectId, nextMediaId, nextContactId, issued>>

\* A deleteProject that hands the id of the newest project back to the counter.
DeleteProjectRewind(id) ==
    /\ projects' = MapDelete(projects, id)
    /\ nextProjectId' = IF id \in DOMAIN projects /\ id = nextProjectId - 1
                        THEN id ELSE nextProjectId
    /\ last' = Target(Call("deleteProject", Null, id, "none", Undefined), projects)
    /\ UNCHANGED <<impl, now, users, media, contacts, nextMediaId, nextContactId, issued>>

\* MemStorage.deleteProject (Map.delete) and DatabaseStorage.deleteProject
\* (DELETE ... WHERE id = $1): both remove the record if there is one.
DeleteProject(id) ==
    /\ projects' = MapDelete(projects, id)
    /\ last' = Target(Call("deleteProject", Null, id, "none", Undefined), projects)
    /\ UNCHANGED <<impl, now, users, media, contacts,
                   nextProjectId, nextMediaId, nextContactId, issued>>

\* ------------------------------------------------------------------ lists
\* Array.from(map.values()): a Map iterates in insertion order, and the keys of
\* these maps are inserted in counter order (set() on a present key keeps its
\* place), so the values come by ascending key.
RECURSIVE KeysAscending(_)
KeysAscending(S) ==
    IF S = {} THEN << >>
    ELSE LET k == CHOOSE x \in S : \A y \in S : x <= y
         IN <<k>> \o KeysAscending(S \ {k})

MapValues(m) == [i \in 1..Cardinality(DOMAIN m) |-> m[KeysAscending(DOMAIN m)[i]]]

\* allProjects.filter(p => p.status === status)
RECURSIVE FilterStatus(_, _)
FilterStatus(seq, status) ==
    IF seq = << >> THEN << >>
    ELSE (IF Head(seq).status = status THEN <<Head(seq)>> ELSE << >>)
         \o FilterStatus(Tail(seq), status)

\* Array.prototype.sort with (a, b) => b.createdAt - a.createdAt: a stable sort,
\* newest first; x goes behind every element that is not older than it.
RECURSIVE InsertNewestFirst(_, _)
InsertNewestFirst(sorted, x) ==
    IF sorted = << >> THEN <<x>>
    ELSE IF Head(sorted).createdAt >= x.createdAt
         THEN <<Head(sorted)>> \o InsertNewestFirst(Tail(sorted), x)
         ELSE <<x>> \o sorted

\* A sort that puts the oldest record first.
SortOldestFirst(seq) ==
    LET Rev(q) == [i \in 1..Len(q) |-> q[Len(q) + 1 - i]]
        F[n \in 0..Len(seq)] ==
            IF n = 0 THEN << >> ELSE InsertNewestFirst(F[n - 1], seq[n])
    IN Rev(F[Len(seq)])

RECURSIVE SortNewestFirst(_)
SortNewestFirst(seq) ==
    IF seq = << >> THEN << >>
    ELSE InsertNewestFirst(SortNewestFirst(SubSeq(seq, 1, Len(seq) - 1)), seq[Len(seq)])

\* ORDER BY created_at DESC over a set of rows: every listing of the rows, each
\* once, that is newest first; the order among equal timestamps is the database's.
OrderByCreatedAtDesc(rows) ==
    {s \in [1..Cardinality(rows) -> rows] :
        /\ \A i, j \in DOMAIN s : i # j => s[i] # s[j]
        /\ \A i, j \in DOMAIN s : i < j => s[i].createdAt >= s[j].createdAt}

\* A getProjects that forgets the status filter.
MemGetProjectsUnfiltered(status) == SortNewestFirst(MapValues(projects))

\* MemStorage.getProjects
MemGetProjects(status) ==
    LET allProjects == MapValues(projects)
        filtered == IF ~Falsy(status) THEN FilterStatus(allProjects, status) ELSE allProjects
    IN SortNewestFirst(filtered)

\* DatabaseStorage.getProjects: the results the query may return.
DbGetProjects(status) ==
    LET rows == {projects[k] : k \in DOMAIN projects}
    IN IF ~Falsy(status)
       THEN OrderByCreatedAtDesc({p \in rows : p.status = status})
       ELSE OrderByCreatedAtDesc(rows)

GetProjects(status) ==
    /\ \E result \in (IF impl = "mem" THEN {MemGetProjects(status)} ELSE DbGetProjects(status)) :
          last' = Call("getProjects", status, 0, "none", result)
    /\ UNCHANGED <<impl, now, users, projects, media, contacts,
                   nextProjectId, nextMediaId, nextContactId, issued>>

\* ----------------------------------------------------------------- inputs
RequiredProject(slug) ==
    [title |-> "T", slug |-> slug, description |-> "d", content |-> "c", category |-> "Web"]

\* Payloads of createProject: the required fields alone, and with optional fields.
ProjectInputs ==
    {RequiredProject("a"),
     Spread(RequiredProject("b"),
            [status |-> "published", featuredImage |-> "/uploads/i.svg", tags |-> "[t]"])}

\* Payloads of updateProject.
ProjectPatches ==
    {[status |-> "published"], [title |-> "T2", slug |-> "b"]}

ProjectIds == 1..(MaxId + 1)

NextProject ==
    \/ \E d \in ProjectInputs : \E t1 \in Readings(now) : \E t2 \in Readings(t1) :
          MemCreateProject(d, t1, t2) /\ UNCHANGED appVars
    \/ \E d \in ProjectInputs : \E t \in Readings(now) : DbCreateProject(d, t) /\ UNCHANGED appVars
    \/ \E id \in ProjectIds : \E d \in ProjectPatches : \E t \in Readings(now) :
          MemUpdateProject(id, d, t) /\ UNCHANGED appVars
    \/ \E id \in ProjectIds : \E d \in ProjectPatches : \E t \in Readings(now) :
          DbUpdateProject(id, d, t) /\ UNCHANGED appVars
    \/ \E id \in ProjectIds : DeleteProject(id) /\ UNCHANGED appVars
    \/ \E status \in {Undefined, "published"} : GetProjects(status) /\ UNCHANGED appVars

SpecProject == Init /\ [][NextProject]_vars

\* ------------------------------------------------------------------ users
\* The record MemStorage.upsertUser builds.
NewUser(userData, t1, t2) ==
    [id |-> userData.id,
     email |-> Or(Get(userData, "email"), Null),
     firstName |-> Or(Get(userData, "firstName"), Null),
     lastName |-> Or(Get(userData, "lastName"), Null),
     profileImageUrl |-> Or(Get(userData, "profileImageUrl"), Null),
     createdAt |-> IF userData.id \in DOMAIN users THEN users[userData.id].createdAt ELSE t1,
     updatedAt |-> t2]

\* MemStorage.upsertUser: createdAt reads the clock only for an unseen id.
MemUpsertUser(userData, t1, t2) ==
    /\ impl = "mem"
    /\ IF Falsy(Get(userData, "id"))
       THEN /\ last' = Call("upsertUser", userData, 0, "ValidationError", Undefined)
            /\ UNCHANGED <<users, now>>
       ELSE LET user == NewUser(userData, t1, t2)
            IN /\ userData.id \in DOMAIN users => t1 = now
               /\ users' = MapSet(users, userData.id, user)
               /\ last' = Call("upsertUser", userData, 0, "none", user)
               /\ now' = t2
    /\ UNCHANGED <<impl, projects, media, contacts,
                   nextProjectId, nextMediaId, nextContactId, issued>>

\* gen_random_uuid(): the default of users.id, a key no row has yet.
GeneratedIds == {"uuid-1", "uuid-2"}

\* The row INSERT INTO users would store for a payload, under key id.
NewUserRow(id, userData, t) ==
    [id |-> id,
     email |-> IF "email" \in DOMAIN userData THEN userData.email ELSE Null,
     firstName |-> IF "firstName" \in DOMAIN userData THEN userData.firstName ELSE Null,
     lastName |-> IF "lastName" \in DOMAIN userData THEN userData.lastName ELSE Null,
     profileImageUrl |-> IF "profileImageUrl" \in DOMAIN userData
                         THEN userData.profileImageUrl ELSE Null,
     createdAt |-> t,
     updatedAt |-> t]

\* users.email is unique (NULLs do not collide).
EmailTaken(row, others) ==
    row.email # Null /\ \E k \in DOMAIN others : others[k].email = row.email

\* DatabaseStorage.upsertUser: INSERT ... ON CONFLICT (id) DO UPDATE SET the
\* payload's fields and updatedAt.  A payload without id gets a generated one;
\* an empty id is a key like any other.
DbUpsertUser(userData, t) ==
    /\ impl = "db"
    /\ \E id \in (IF "id" \in DOMAIN userData THEN {userData.id} ELSE GeneratedIds \ DOMAIN users) :
          LET row == IF id \in DOMAIN users
                     THEN [Spread(users[id], userData) EXCEPT !.updatedAt = t]
                     ELSE NewUserRow(id, userData, t)
          IN IF EmailTaken(row, MapDelete(users, id))
             THEN /\ last' = Call("upsertUser", userData, 0, "ConflictError", Undefined)
                  /\ UNCHANGED <<users, now>>
             ELSE /\ users' = MapSet(users, id, row)
                  /\ last' = Call("upsertUser", userData, 0, "none", row)
                  /\ now' = t
    /\ UNCHANGED <<impl, projects, media, contacts,
                   nextProjectId, nextMediaId, nextContactId, issued>>

\* getUser of both stores: the record under the key, or undefined.
GetUser(id) ==
    /\ last' = Call("getUser", id, 0, "none", Get(users, id))
    /\ UNCHANGED <<impl, now, users, projects, media, contacts,
                   nextProjectId, nextMediaId, nextContactId, issued>>

\* Payloads of upsertUser: a full profile, an email alone, and payloads with no
\* id or an empty one.
UserInputs ==
    {[id |-> "u1", email |-> "a@x", firstName |-> "F", lastName |-> "L"],
     [id |-> "u1", email |-> "b@x"],
     [id |-> "u2", email |-> "b@x"],
     [email |-> "c@x", firstName |-> "F"],
     [id |-> "", email |-> "d@x"]}

NextUser ==
    \/ \E d \in UserInputs : \E t1 \in Readings(now) : \E t2 \in Readings(t1) :
          MemUpsertUser(d, t1, t2) /\ UNCHANGED appVars
    \/ \E d \in UserInputs : \E t \in Readings(now) : DbUpsertUser(d, t) /\ UNCHANGED appVars
    \/ \E id \in {"u1", "u2", ""} : GetUser(id) /\ UNCHANGED appVars

SpecUser == Init /\ [][NextUser]_vars

\* ------------------------------------------------------------------ media
\* The record MemStorage.createMedia builds.
NewMedia(id, mediaData, t) ==
    [id |-> id,
     filename |-> Get(mediaData, "filename"),
     originalName |-> Get(mediaData, "originalName"),
     mimeType |-> Get(mediaData, "mimeType"),
     size |-> Get(mediaData, "size"),
     url |-> Get(mediaData, "url"),
     altText |-> Or(Get(mediaData, "altText"), Null),
     uploadedBy |-> Or(Get(mediaData, "uploadedBy"), Null),
     createdAt |-> t]

\* MemStorage.createMedia
MemCreateMedia(mediaData, t) ==
    /\ impl = "mem"
    /\ nextMediaId <= MaxId
    /\ LET id == nextMediaId
           m == NewMedia(id, mediaData, t)
       IN /\ nextMediaId' = nextMediaId + 1
          /\ media' = MapSet(media, id, m)
          /\ issued' = [issued EXCEPT !.media = Append(@, id)]
          /\ last' = Call("createMedia", mediaData, 0, "none", m)
    /\ now' = t
    /\ UNCHANGED <<impl, users, projects, contacts, nextProjectId, nextContactId>>

\* The row INSERT INTO media stores.
NewMediaRow(id, mediaData, t) ==
    [id |-> id,
     filename |-> Get(mediaData, "filename"),
     originalName |-> Get(mediaData, "originalName"),
     mimeType |-> Get(mediaData, "mimeType"),
     size |-> Get(mediaData, "size"),
     url |-> Get(mediaData, "url"),
     altText |-> IF "altText" \in DOMAIN mediaData THEN mediaData.altText ELSE Null,
     uploadedBy |-> IF "uploadedBy" \in DOMAIN mediaData THEN mediaData.uploadedBy ELSE Null,
     createdAt |-> t]

\* The constraints of the media table: NOT NULL columns, uploaded_by
\* referencing users.id.
MediaRowError(row) ==
    IF \E f \in {"filename", "originalName", "mimeType", "size", "url"} :
           row[f] \in {Null, Undefined}
    THEN "NotNullError"
    ELSE IF row.uploadedBy # Null /\ row.uploadedBy \notin DOMAIN users THEN "ForeignKeyError"
    ELSE "none"

\* DatabaseStorage.createMedia
DbCreateMedia(mediaData, t) ==
    /\ impl = "db"
    /\ nextMediaId <= MaxId
    /\ LET id == nextMediaId
           row == NewMediaRow(id, mediaData, t)
           err == MediaRowError(row)
       IN /\ nextMediaId' = nextMediaId + 1
          /\ IF err = "none"
             THEN /\ media' = MapSet(media, id, row)
                  /\ issued' = [issued EXCEPT !.media = Append(@, id)]
                  /\ last' = Call("createMedia", mediaData, 0, "none", row)
                  /\ now' = t
             ELSE /\ last' = Call("createMedia", mediaData, 0, err, Undefined)
                  /\ UNCHANGED <<media, issued, now>>
    /\ UNCHANGED <<impl, users, projects, contacts, nextProjectId, nextContactId>>

\* A deleteMedia that also removes every record with a lower key.
DeleteMediaUpTo(id) ==
    /\ media' = [k \in {x \in DOMAIN media : x > id} |-> media[k]]
    /\ last' = Target(Call("deleteMedia", Null, id, "none", Undefined), media)
    /\ UNCHANGED <<impl, now, users, projects, contacts,
                   nextProjectId, nextMediaId, nextContactId, issued>>

\* MemStorage.deleteMedia and DatabaseStorage.deleteMedia
DeleteMedia(id) ==
    /\ media' = MapDelete(media, id)
    /\ last' = Target(Call("deleteMedia", Null, id, "none", Undefined), media)
    /\ UNCHANGED <<impl, now, users, projects, contacts,
                   nextProjectId, nextMediaId, nextContactId, issued>>

\* MemStorage.getMedia
MemGetMedia == SortNewestFirst(MapValues(media))

\* DatabaseStorage.getMedia: the results the query may return.
DbGetMedia == OrderByCreatedAtDesc({media[k] : k \in DOMAIN media})

GetMedia ==
    /\ \E result \in (IF impl = "mem" THEN {MemGetMedia} ELSE DbGetMedia) :
          last' = Call("getMedia", Null, 0, "none", result)
    /\ UNCHANGED <<impl, now, users, projects, media, contacts,
                   nextProjectId, nextMediaId, nextContactId, issued>>

\* getMediaById of both stores
GetMediaById(id) ==
    /\ last' = Call("getMediaById", Null, id, "none", Get(media, id))
    /\ UNCHANGED <<impl, now, users, projects, media, contacts,
                   nextProjectId, nextMediaId, nextContactId, issued>>

RequiredMedia ==
    [filename |-> "f.png", originalName |-> "o.png", mimeType |-> "image/png",
     size |-> "10", url |-> "/uploads/f.png"]

\* Payloads of createMedia: the required fields alone, and as the upload route
\* sends them.
MediaInputs ==
    {RequiredMedia, Spread(RequiredMedia, [altText |-> "", uploadedBy |-> "u1"])}

MediaIds == 1..(MaxId + 1)

NextMedia ==
    \/ \E d \in MediaInputs : \E t \in Readings(now) : MemCreateMedia(d, t) /\ UNCHANGED appVars
    \/ \E d \in MediaInputs : \E t \in Readings(now) : DbCreateMedia(d, t) /\ UNCHANGED appVars
    \/ \E id \in MediaIds : DeleteMedia(id) /\ UNCHANGED appVars
    \/ GetMedia /\ UNCHANGED appVars
    \/ \E id \in MediaIds : GetMediaById(id) /\ UNCHANGED appVars

SpecMedia == Init /\ [][NextMedia]_vars

\* --------------------------------------------------------------- contacts
\* MemStorage.createContact: { id, ...contactData, status: "new", createdAt }.
MemCreateContact(contactData, t) ==
    /\ impl = "mem"
    /\ nextContactId <= MaxId
    /\ LET id == nextContactId
           contact == Spread(Spread([id |-> id], contactData),
                             [status |-> "new", createdAt |-> t])
       IN /\ nextContactId' = nextContactId + 1
          /\ contacts' = MapSet(contacts, id, contact)
          /\ issued' = [issued EXCEPT !.contacts = Append(@, id)]
          /\ last' = Call("createContact", contactData, 0, "none", contact)
    /\ now' = t
    /\ UNCHANGED <<impl, users, projects, media, nextProjectId, nextMediaId>>

\* The row INSERT INTO contact_submissions stores: status is a column of the
\* table, so a status the payload carries is stored; the default applies only
\* when it carries none.
NewContactRow(id, contact, t) ==
    [id |-> id,
     name |-> Get(contact, "name"),
     email |-> Get(contact, "email"),
     subject |-> Get(contact, "subject"),
     message |-> Get(contact, "message"),
     status |-> IF "status" \in DOMAIN contact THEN contact.status ELSE "new",
     createdAt |-> t]

\* DatabaseStorage.createContact
DbCreateContact(contact, t) ==
    /\ impl = "db"
    /\ nextContactId <= MaxId
    /\ LET id == nextContactId
           row == NewContactRow(id, contact, t)
       IN /\ nextContactId' = nextContactId + 1
          /\ contacts' = MapSet(contacts, id, row)
          /\ issued' = [issued EXCEPT !.contacts = Append(@, id)]
          /\ last' = Call("createContact", contact, 0, "none", row)
    /\ now' = t
    /\ UNCHANGED <<impl, users, projects, media, nextProjectId, nextMediaId>>

\* An updateContactStatus that stamps the contact it changes.
UpdateContactStatusStamp(id, status) ==
    /\ contacts' = IF id \in DOMAIN contacts
                   THEN MapSet(contacts, id,
                               Spread(contacts[id], [status |-> status, createdAt |-> now]))
                   ELSE contacts
    /\ last' = Target(Call("updateContactStatus", status, id, "none", Undefined), contacts)
    /\ UNCHANGED <<impl, now, users, projects, media,
                   nextProjectId, nextMediaId, nextContactId, issued>>

\* An updateContactStatus that drops the contact it archives.
UpdateContactStatusArchive(id, status) ==
    /\ contacts' = IF id \notin DOMAIN contacts THEN contacts
                   ELSE IF status = "archived" THEN MapDelete(contacts, id)
                   ELSE MapSet(contacts, id, Spread(contacts[id], [status |-> status]))
    /\ last' = Target(Call("updateContactStatus", status, id, "none", Undefined), contacts)
    /\ UNCHANGED <<impl, now, users, projects, media,
                   nextProjectId, nextMediaId, nextContactId, issued>>

\* MemStorage.updateContactStatus and DatabaseStorage.updateContactStatus
\* (UPDATE ... SET status WHERE id = $1): nothing happens for an absent id.
UpdateContactStatus(id, status) ==
    /\ contacts' = IF id \in DOMAIN contacts
                   THEN MapSet(contacts, id, Spread(contacts[id], [status |-> status]))
                   ELSE contacts
    /\ last' = Target(Call("updateContactStatus", status, id, "none", Undefined), contacts)
    /\ UNCHANGED <<impl, now, users, projects, media,
                   nextProjectId, nextMediaId, nextContactId, issued>>

\* MemStorage.getContacts
MemGetContacts == SortNewestFirst(MapValues(contacts))

\* DatabaseStorage.getContacts: the results the query may return.
DbGetContacts == OrderByCreatedAtDesc({contacts[k] : k \in DOMAIN contacts})

GetContacts ==
    /\ \E result \in (IF impl = "mem" THEN {MemGetContacts} ELSE DbGetContacts) :
          last' = Call("getContacts", Null, 0, "none", result)
    /\ UNCHANGED <<impl, now, users, projects, media, contacts,
                   nextProjectId, nextMediaId, nextContactId, issued>>

RequiredContact == [name |-> "n", email |-> "e@x", subject |-> "s", message |-> "m"]

\* Payloads of createContact: the form's fields, and the same with a status.
ContactInputs == {RequiredContact, Spread(RequiredContact, [status |-> "read"])}

ContactIds == 1..(MaxId + 1)

NextContact ==
    \/ \E d \in ContactInputs : \E t \in Readings(now) : MemCreateContact(d, t) /\ UNCHANGED appVars
    \/ \E d \in ContactInputs : \E t \in Readings(now) : DbCreateContact(d, t) /\ UNCHANGED appVars
    \/ \E id \in ContactIds : \E status \in {"read", "archived"} : UpdateContactStatus(id, status) /\ UNCHANGED appVars
    \/ GetContacts /\ UNCHANGED appVars

SpecContact == Init /\ [][NextContact]_vars

\* -------------------------------------------------------- project status
\* Payloads of createProject and updateProject that carry a status: the status
\* column is a varchar(50) and the insert schema derived from it accepts any
\* string of that length.
StatusInputs ==
    {RequiredProject("a"), Spread(RequiredProject("b"), [status |-> "archived"])}

StatusPatches == {[status |-> "published"], [status |-> "archived"]}

NextStatus ==
    \/ \E d \in StatusInputs : \E t1 \in Readings(now) : \E t2 \in Readings(t1) :
          MemCreateProject(d, t1, t2) /\ UNCHANGED appVars
    \/ \E d \in StatusInputs : \E t \in Readings(now) : DbCreateProject(d, t) /\ UNCHANGED appVars
    \/ \E id \in ProjectIds : \E d \in StatusPatches : \E t \in Readings(now) :
          MemUpdateProject(id, d, t) /\ UNCHANGED appVars
    \/ \E id \in ProjectIds : \E d \in StatusPatches : \E t \in Readings(now) :
          DbUpdateProject(id, d, t) /\ UNCHANGED appVars

SpecStatus == Init /\ [][NextStatus]_vars

\* ------------------------------------------------------------ list reads
\* The three unfiltered list reads over stores filled by creates at moving clock
\* readings, with one payload per collection, and thinned by deleting the oldest
\* project and media record.
NextLists ==
    \/ \E t \in Readings(now) : MemCreateProject(RequiredProject("a"), t, t) /\ UNCHANGED appVars
    \/ \E t \in Readings(now) : DbCreateProject(RequiredProject("a"), t) /\ UNCHANGED appVars
    \/ DeleteProject(1) /\ UNCHANGED appVars
    \/ \E t \in Readings(now) : MemCreateMedia(RequiredMedia, t) /\ UNCHANGED appVars
    \/ \E t \in Readings(now) : DbCreateMedia(RequiredMedia, t) /\ UNCHANGED appVars
    \/ DeleteMedia(1) /\ UNCHANGED appVars
    \/ \E t \in Readings(now) : MemCreateContact(RequiredContact, t) /\ UNCHANGED appVars
    \/ \E t \in Readings(now) : DbCreateContact(RequiredContact, t) /\ UNCHANGED appVars
    \/ GetProjects(Undefined) /\ UNCHANGED appVars
    \/ GetMedia /\ UNCHANGED appVars
    \/ GetContacts /\ UNCHANGED appVars

SpecLists == Init /\ [][NextLists]_vars

\* ------------------------------------------------- every create and delete
\* The calls that hand out and retire ids, interleaved over the three
\* collections, with one payload each and the clock standing still (ids do not
\* depend on either).
NextIds ==
    \/ MemCreateProject(RequiredProject("a"), now, now) /\ UNCHANGED appVars
    \/ DbCreateProject(RequiredProject("a"), now) /\ UNCHANGED appVars
    \/ \E id \in ProjectIds : DeleteProject(id) /\ UNCHANGED appVars
    \/ MemCreateMedia(RequiredMedia, now) /\ UNCHANGED appVars
    \/ DbCreateMedia(RequiredMedia, now) /\ UNCHANGED appVars
    \/ \E id \in MediaIds : DeleteMedia(id) /\ UNCHANGED appVars
    \/ MemCreateContact(RequiredContact, now) /\ UNCHANGED appVars
    \/ DbCreateContact(RequiredContact, now) /\ UNCHANGED appVars

SpecIds == Init /\ [][NextIds]_vars

\* ------------------------------------------------------------ whole store
Next ==
    \/ NextProject
    \/ NextUser
    \/ NextMedia
    \/ NextContact

Spec == Init /\ [][Next]_vars

\* ------------------------------------------------ the two stores compared
\* What MemStorage answers to a call made in the current state at clock reading
\* t: the error it throws ("none" when it returns) and the record it returns.
MemAnswers(op, arg, id, t) ==
    IF op = "createProject"
    THEN {[err |-> "none", ret |-> NewProject(nextProjectId, arg, t, t)]}
    ELSE IF op = "updateProject"
    THEN IF id \notin DOMAIN projects
         THEN {[err |-> "NotFoundError", ret |-> Undefined]}
         ELSE {[err |-> "none", ret |-> MergeProject(projects[id], arg, t)]}
    ELSE IF op = "upsertUser"
    THEN IF Falsy(Get(arg, "id"))
         THEN {[err |-> "ValidationError", ret |-> Undefined]}
         ELSE {[err |-> "none", ret |-> NewUser(arg, t, t)]}
    ELSE IF op = "createMedia"
    THEN {[err |-> "none", ret |-> NewMedia(nextMediaId, arg, t)]}
    ELSE {[err |-> "none",
           ret |-> Spread(Spread([id |-> nextContactId], arg),
                          [status |-> "new", createdAt |-> t])]}

\* What DatabaseStorage answers to the same call in the same state.
DbAnswers(op, arg, id, t) ==
    IF op = "createProject"
    THEN LET row == NewProjectRow(nextProjectId, arg, t)
             err == ProjectRowError(row, projects)
         IN {[err |-> err, ret |-> IF err = "none" THEN row ELSE Undefined]}
    ELSE IF op = "updateProject"
    THEN IF id \notin DOMAIN projects
         THEN {[err |-> "none", ret |-> Undefined]}
         ELSE LET row == MergeProject(projects[id], arg, t)
                  err == ProjectRowError(row, MapDelete(projects, id))
              IN {[err |-> err, ret |-> IF err = "none" THEN row ELSE Undefined]}
    ELSE IF op = "upsertUser"
    THEN {LET row == IF key \in DOMAIN users
                     THEN [Spread(users[key], arg) EXCEPT !.updatedAt = t]
                     ELSE NewUserRow(key, arg, t)
          IN IF EmailTaken(row, MapDelete(users, key))
             THEN [err |-> "ConflictError", ret |-> Undefined]
             ELSE [err |-> "none", ret |-> row] :
          key \in (IF "id" \in DOMAIN arg THEN {arg.id} ELSE GeneratedIds \ DOMAIN users)}
    ELSE IF op = "createMedia"
    THEN LET row == NewMediaRow(nextMediaId, arg, t)
             err == MediaRowError(row)
         IN {[err |-> err, ret |-> IF err = "none" THEN row ELSE Undefined]}
    ELSE {[err |-> "none", ret |-> NewContactRow(nextContactId, arg, t)]}

\* The calls whose code differs between the two stores.
ComparedCalls ==
    {"createProject", "updateProject", "upsertUser", "createMedia", "createContact"}

\* Each of them, with the clock standing still: a project created and
\* published, a profile stored and its email changed, an upsert with an empty
\* id, an upload and a contact form.
NextBoth ==
    \/ MemCreateProject(RequiredProject("a"), now, now) /\ UNCHANGED appVars
    \/ DbCreateProject(RequiredProject("a"), now) /\ UNCHANGED appVars
    \/ \E id \in ProjectIds : MemUpdateProject(id, [status |-> "published"], now) /\ UNCHANGED appVars
    \/ \E id \in ProjectIds : DbUpdateProject(id, [status |-> "published"], now) /\ UNCHANGED appVars
    \/ \E d \in UserInputs : MemUpsertUser(d, now, now) /\ UNCHANGED appVars
    \/ \E d \in UserInputs : DbUpsertUser(d, now) /\ UNCHANGED appVars
    \/ \E d \in MediaInputs : MemCreateMedia(d, now) /\ UNCHANGED appVars
    \/ \E d \in MediaInputs : DbCreateMedia(d, now) /\ UNCHANGED appVars
    \/ \E d \in ContactInputs : MemCreateContact(d, now) /\ UNCHANGED appVars
    \/ \E d \in ContactInputs : DbCreateContact(d, now) /\ UNCHANGED appVars

SpecBoth == Init /\ [][NextBoth]_vars

\* MemAnswers and DbAnswers say what the calls of their own store do.
AnswersAsImplemented ==
    [][(last'.op \in ComparedCalls)
       => [err |-> last'.err, ret |-> last'.ret]
             \in (IF impl = "mem" THEN MemAnswers(last'.op, last'.arg, last'.id, now)
                  ELSE DbAnswers(last'.op, last'.arg, last'.id, now))]_vars

\* -------------------------------------------------------- slug derivation
\* A string is the sequence of its characters.  The characters titles are made
\* of: an upper-case and a lower-case letter, a digit, two kinds of whitespace,
\* a hyphen, punctuation and an accented capital.
TitleChars == {"A", "b", "7", " ", "\t", "-", "!", "É"}

Titles == UNION {[1..n -> TitleChars] : n \in 0..MaxTitleLen}

\* [a-z0-9-]
SlugChars ==
    {"a", "b", "c", "d", "e", "f", "g", "h", "i", "j", "k", "l", "m",
     "n", "o", "p", "q", "r", "s", "t", "u", "v", "w", "x", "y", "z",
     "0", "1", "2", "3", "4", "5", "6", "7", "8", "9", "-"}

\* \s
IsWhitespace(c) == c \in {" ", "\t"}

\* String.prototype.toLowerCase
UpperLetters ==
    <<"A", "B", "C", "D", "E", "F", "G", "H", "I", "J", "K", "L", "M",
      "N", "O", "P", "Q", "R", "S", "T", "U", "V", "W", "X", "Y", "Z", "É">>

LowerLetters ==
    <<"a", "b", "c", "d", "e", "f", "g", "h", "i", "j", "k", "l", "m",
      "n", "o", "p", "q", "r", "s", "t", "u", "v", "w", "x", "y", "z", "é">>

LowerChar(c) ==
    IF \E i \in DOMAIN UpperLetters : UpperLetters[i] = c
    THEN LowerLetters[CHOOSE i \in DOMAIN UpperLetters : UpperLetters[i] = c]
    ELSE c

ToLowerCase(str) == [i \in 1..Len(str) |-> LowerChar(str[i])]

\* .replace(/\s/g, '-'): a hyphen for every whitespace character.
ReplaceEachWhitespace(str) ==
    [i \in 1..Len(str) |-> IF IsWhitespace(str[i]) THEN "-" ELSE str[i]]

\* .replace(/\s+/g, '-'): scanning from the left, the longest stretch of
\* whitespace at the scanning position becomes one hyphen.
RECURSIVE ReplaceWhitespaceRuns(_)
ReplaceWhitespaceRuns(str) ==
    IF str = << >> THEN << >>
    ELSE IF IsWhitespace(Head(str))
    THEN LET n == CHOOSE k \in 1..Len(str) :
                     /\ \A i \in 1..k : IsWhitespace(str[i])
                     /\ k = Len(str) \/ ~IsWhitespace(str[k + 1])
         IN <<"-">> \o ReplaceWhitespaceRuns(SubSeq(str, n + 1, Len(str)))
    ELSE <<Head(str)>> \o ReplaceWhitespaceRuns(Tail(str))

\* .replace(/[^a-z0-9-]/g, '')
RECURSIVE StripNonSlugChars(_)
StripNonSlugChars(str) ==
    IF str = << >> THEN << >>
    ELSE IF Head(str) \in SlugChars
    THEN <<Head(str)>> \o StripNonSlugChars(Tail(str))
    ELSE StripNonSlugChars(Tail(str))

\* title.toLowerCase().replace(/\s+/g, '-').replace(/[^a-z0-9-]/g, '')
Slugify(title) == StripNonSlugChars(ReplaceWhitespaceRuns(ToLowerCase(title)))

\* A request body's title has arrived, over a new store.
InitSlug ==
    /\ impl \in {"mem", "db"}
    /\ now = 0
    /\ users = << >>
    /\ projects = << >>
    /\ media = << >>
    /\ contacts = << >>
    /\ nextProjectId = 1
    /\ nextMediaId = 1
    /\ nextContactId = 1
    /\ issued = [projects |-> << >>, media |-> << >>, contacts |-> << >>]
    /\ \E title \in Titles : last = Call("title", title, 0, "none", Null)
    /\ env \in {"development", "production"}
    /\ samples = 0
    /\ res = NoResponse

\* The slug expression of the admin routes evaluated on that title.
DeriveSlug ==
    /\ last.op = "title"
    /\ last' = Call("slug", last.arg, 0, "none", Slugify(last.arg))
    /\ UNCHANGED <<impl, now, users, projects, media, contacts,
                   nextProjectId, nextMediaId, nextContactId, issued>>

NextSlug == DeriveSlug /\ UNCHANGED appVars

SpecSlug == InitSlug /\ [][NextSlug]_vars

\* ------------------------------------------------------- the served store
\* MemStorage.getProject and DatabaseStorage.getProject
GetProject(id) ==
    /\ last' = Target(Call("getProject", Null, id, "none", Get(projects, id)), projects)
    /\ UNCHANGED <<impl, now, users, projects, media, contacts,
                   nextProjectId, nextMediaId, nextContactId, issued>>

\* MemStorage.getProjectBySlug: the first project, in the map's order, with the
\* slug.
MemGetProjectBySlug(slug) ==
    LET all == MapValues(projects)
        hits == {i \in DOMAIN all : all[i].slug = slug}
    IN IF hits = {} THEN Undefined ELSE all[CHOOSE i \in hits : \A j \in hits : i <= j]

\* DatabaseStorage.getProjectBySlug: the first row SELECT ... WHERE slug = $1
\* returns.
DbGetProjectBySlug(slug) ==
    LET hits == {k \in DOMAIN projects : projects[k].slug = slug}
    IN IF hits = {} THEN {Undefined} ELSE {projects[k] : k \in hits}

\* hit: a project was found.
GetProjectBySlug(slug) ==
    /\ \E result \in (IF impl = "mem" THEN {MemGetProjectBySlug(slug)}
                      ELSE DbGetProjectBySlug(slug)) :
          last' = [Call("getProjectBySlug", slug, 0, "none", result)
                      EXCEPT !.hit = \E k \in DOMAIN projects : projects[k].slug = slug]
    /\ UNCHANGED <<impl, now, users, projects, media, contacts,
                   nextProjectId, nextMediaId, nextContactId, issued>>

\* A statement of DatabaseStorage that the database connection fails: the call
\* rejects and nothing is stored.
DbUnavailable(op, arg, id) ==
    /\ impl = "db"
    /\ last' = Target(Call(op, arg, id, "TransportError", Undefined),
                      IF op \in {"createMedia", "deleteMedia", "getMedia"} THEN media
                      ELSE IF op \in {"createContact", "getContacts"} THEN contacts
                      ELSE projects)
    /\ UNCHANGED <<impl, now, users, projects, media, contacts,
                   nextProjectId, nextMediaId, nextContactId, issued>>

\* The three projects initializeSampleData creates, with their texts and tags
\* abbreviated.
SampleProjects ==
    <<[title |-> "Modern E-commerce Platform", slug |-> "modern-ecommerce-platform",
       description |-> "d1", content |-> "c1",
       featuredImage |-> "/uploads/ecommerce-preview.svg",
       category |-> "Full-Stack Development", tags |-> "[React,...]",
       status |-> "published", authorId |-> "mock-user-123"],
      [title |-> "Real-Time Analytics Dashboard", slug |-> "realtime-analytics-dashboard",
       description |-> "d2", content |-> "c2",
       featuredImage |-> "/uploads/dashboard-preview.svg",
       category |-> "Data Visualization", tags |-> "[React,D3.js,...]",
       status |-> "published", authorId |-> "mock-user-123"],
      [title |-> "Secure Mobile Banking Application", slug |-> "secure-mobile-banking-app",
       description |-> "d3", content |-> "c3",
       featuredImage |-> "/uploads/banking-app-preview.svg",
       category |-> "Mobile Development", tags |-> "[React Native,...]",
       status |-> "published", authorId |-> "mock-user-123"]>>

\* The store the server imports: storage.ts exports a MemStorage and starts
\* initializeSampleData on it; the earlier storage module exports a
\* DatabaseStorage and loads nothing.
InitApp ==
    /\ impl \in {"mem", "db"}
    /\ now = 0
    /\ users = << >>
    /\ projects = << >>
    /\ media = << >>
    /\ contacts = << >>
    /\ nextProjectId = 1
    /\ nextMediaId = 1
    /\ nextContactId = 1
    /\ issued = [projects |-> << >>, media |-> << >>, contacts |-> << >>]
    /\ last = Call("init", Null, 0, "none", Null)
    /\ env \in {"development", "production"}
    /\ samples = 0
    /\ res = NoResponse

\* One createProject of initializeSampleData.  The calls resolve without
\* waiting for anything, so each continues in the microtask the one before it
\* queued.
LoadSample ==
    /\ impl = "mem"
    /\ samples < Len(SampleProjects)
    /\ \E t1 \in Readings(now) : \E t2 \in Readings(t1) :
          MemCreateProject(SampleProjects[samples + 1], t1, t2)
    /\ samples' = samples + 1
    /\ UNCHANGED <<env, res>>

\* A server that takes requests while initializeSampleData is still at one of
\* its awaits.
ListeningFromTheStart == TRUE

\* The module has been loaded: callers of the store and request handlers run
\* after the microtasks of the module's evaluation are done.
Loaded == impl = "db" \/ samples = Len(SampleProjects)

\* The titles request bodies carry, and the characters of each title and of
\* each slug derived from one.
BodyTitles == {"A", "A!", "b 7"}

Chars(str) ==
    IF str = "A" THEN <<"A">>
    ELSE IF str = "A!" THEN <<"A", "!">>
    ELSE IF str = "b 7" THEN <<"b", " ", "7">>
    ELSE IF str = "a" THEN <<"a">>
    ELSE <<"b", "-", "7">>

\* The string with the given characters.
Text(chars) == CHOOSE str \in {"A", "A!", "b 7", "a", "b-7"} : Chars(str) = chars

\* The slug expression of the admin routes, on a title of a request body.
SlugOf(title) == Text(Slugify(Chars(title)))

\* A project payload with the slug of its title.
TitledProject(title) ==
    [title |-> title, slug |-> SlugOf(title),
     description |-> "d", content |-> "c", category |-> "Web"]

\* The ids callers address on the served store: those of the projects created
\* after the sample data, and the next one.
CallerIds == (samples + 1)..(samples + MaxId + 1)

\* The store storage.ts exports.
InitServed == InitApp /\ impl = "mem"

\* The calls of the example scenario, made on the store storage.ts exports.
NextScenario ==
    \/ LoadSample
    \/ /\ Loaded
       /\ \E t1 \in Readings(now) : \E t2 \in Readings(t1) :
             MemCreateProject(TitledProject("A"), t1, t2)
       /\ UNCHANGED appVars
    \/ /\ Loaded
       /\ \E id \in CallerIds : \E t \in Readings(now) :
             MemUpdateProject(id, [status |-> "published"], t)
       /\ UNCHANGED appVars
    \/ /\ Loaded
       /\ \E id \in CallerIds : DeleteProject(id)
       /\ UNCHANGED appVars
    \/ /\ Loaded
       /\ \E status \in {Undefined, "published"} : GetProjects(status)
       /\ UNCHANGED appVars

SpecScenario == InitServed /\ [][NextScenario]_vars

\* ------------------------------------------------------------- requests
\* What a request brings for authentication: no session object, a session
\* nobody logged in on, a session with a logged-in user, or a session marked
\* loggedOut.
Sessions == {"none", "anonymous", "loggedIn", "loggedOut"}

\* req.user as the session middleware of setupAuth leaves it: the identity of
\* the logged-in user.
PassportUser(session) == IF session = "loggedIn" THEN "user-1" ELSE Undefined

\* developmentAuthBypass: in development req.user becomes the mock user unless
\* the session is marked loggedOut.  The value is req.user.claims.sub.
RequestUser(session) ==
    IF env = "development" /\ session # "loggedOut"
    THEN "mock-user-123"
    ELSE PassportUser(session)

\* isAuthenticated lets a request with an authenticated identity through and
\* answers 401 to any other.
IsAuthenticated(session) == session = "loggedIn"

\* adminAuth lets the request through.
AdminAuth(session) ==
    IF env = "development"
    THEN ~(session = "none" \/ session = "loggedOut") /\ RequestUser(session) # Undefined
    ELSE IsAuthenticated(session)

\* The handler ends the request with a status and a body after calling the
\* store `calls` times; status 0: it ends without sending anything.
Respond(route, session, status, body, calls) ==
    /\ res' = [route |-> route, session |-> session, status |-> status,
               body |-> body, calls |-> calls]
    /\ UNCHANGED <<env, samples>>

\* A rejection that has drawn a project id before it answers.
RejectAfterDrawingId(route, session, status) ==
    /\ Respond(route, session, status, "message", 0)
    /\ nextProjectId' = IF nextProjectId <= MaxId + samples
                        THEN nextProjectId + 1 ELSE nextProjectId
    /\ UNCHANGED <<impl, now, users, projects, media, contacts,
                   nextMediaId, nextContactId, issued, last>>

\* The request is answered before the store is called.
Reject(route, session, status) ==
    /\ Respond(route, session, status, "message", 0)
    /\ UNCHANGED <<impl, now, users, projects, media, contacts,
                   nextProjectId, nextMediaId, nextContactId, issued, last>>

\* try { ...await storage call...; res.status(ok).json(result) }
\* catch { res.status(failed).json({ message }) }
Answer(route, session, ok, failed) ==
    IF last'.err = "none"
    THEN Respond(route, session, ok, last'.ret, 1)
    ELSE Respond(route, session, failed, "message", 1)

\* GET /api/auth/user
AuthUser(session) ==
    LET route == "GET /api/auth/user"
        userId == RequestUser(session)
    IN /\ Loaded
       /\ IF userId = Undefined THEN Reject(route, session, 401)
          ELSE IF userId \in DOMAIN users \/ env # "development"
          THEN /\ GetUser(userId) \/ DbUnavailable("getUser", userId, 0)
               /\ Answer(route, session, 200, 500)
          ELSE LET userData == [id |-> userId, email |-> "dev@example.com",
                                firstName |-> "Developer", lastName |-> "User",
                                profileImageUrl |-> Null]
               IN /\ \/ \E t1 \in Readings(now) : \E t2 \in Readings(t1) :
                           MemUpsertUser(userData, t1, t2)
                     \/ \E t \in Readings(now) : DbUpsertUser(userData, t)
                     \/ DbUnavailable("upsertUser", userData, 0)
                  /\ IF last'.err = "none"
                     THEN Respond(route, session, 200, last'.ret, 2)
                     ELSE Respond(route, session, 500, "message", 2)

\* GET /api/projects
ListProjects(session) ==
    /\ Loaded
    /\ GetProjects("published") \/ DbUnavailable("getProjects", "published", 0)
    /\ Answer("GET /api/projects", session, 200, 500)

\* A GET /api/projects/:slug that answers with whatever project has the slug.
ShowProjectAnyStatus(session, slug) ==
    /\ Loaded
    /\ GetProjectBySlug(slug) \/ DbUnavailable("getProjectBySlug", slug, 0)
    /\ IF last'.err = "none" /\ ~last'.hit
       THEN Respond("GET /api/projects/:slug", session, 404, "message", 1)
       ELSE Answer("GET /api/projects/:slug", session, 200, 500)

\* GET /api/projects/:slug
ShowProject(session, slug) ==
    /\ Loaded
    /\ GetProjectBySlug(slug) \/ DbUnavailable("getProjectBySlug", slug, 0)
    /\ IF last'.err = "none" /\ (~last'.hit \/ last'.ret.status # "published")
       THEN Respond("GET /api/projects/:slug", session, 404, "message", 1)
       ELSE Answer("GET /api/projects/:slug", session, 200, 500)

\* GET /api/admin/projects: outside development the handler hands the request to
\* isAuthenticated with a continuation that does nothing, and returns.
AdminListProjects(session) ==
    LET route == "GET /api/admin/projects"
    IN /\ Loaded
       /\ IF env # "development"
          THEN IF IsAuthenticated(session)
               THEN /\ Respond(route, session, 0, Null, 0)
                    /\ UNCHANGED <<impl, now, users, projects, media, contacts,
                                   nextProjectId, nextMediaId, nextContactId, issued, last>>
               ELSE Reject(route, session, 401)
          ELSE /\ GetProjects(Undefined) \/ DbUnavailable("getProjects", Undefined, 0)
               /\ Answer(route, session, 200, 500)

\* GET /api/admin/projects/:id
AdminShowProject(session, id) ==
    LET route == "GET /api/admin/projects/:id"
    IN /\ Loaded
       /\ IF ~AdminAuth(session) THEN Reject(route, session, 401)
          ELSE /\ GetProject(id) \/ DbUnavailable("getProject", Null, id)
               /\ IF last'.err = "none" /\ ~last'.hit
                  THEN Respond(route, session, 404, "message", 1)
                  ELSE Answer(route, session, 200, 500)

\* The keys of insertProjectSchema and insertContactSchema: the columns of the
\* table without the omitted ones.
InsertProjectKeys ==
    {"title", "slug", "description", "content", "featuredImage", "category", "tags",
     "status", "authorId"}

InsertContactKeys == {"name", "email", "subject", "message"}

\* What schema.parse returns for an accepted object: a z.object drops the keys
\* it does not declare.
Parsed(body, keys) == [f \in DOMAIN body \cap keys |-> body[f]]

\* POST /api/admin/projects: a body without a title string makes the slug
\* expression throw, one without a required field fails the schema.
AdminPostProject(session, body) ==
    LET route == "POST /api/admin/projects"
    IN /\ Loaded
       /\ IF ~AdminAuth(session) THEN Reject(route, session, 401)
          ELSE IF \E f \in {"title", "description", "content", "category"} :
                     Get(body, f) \in {Undefined, Null}
          THEN Reject(route, session, 400)
          ELSE LET validatedData ==
                       Parsed(Spread(body, [authorId |-> RequestUser(session),
                                            slug |-> SlugOf(body.title)]),
                              InsertProjectKeys)
               IN /\ \/ \E t1 \in Readings(now) : \E t2 \in Readings(t1) :
                           MemCreateProject(validatedData, t1, t2)
                     \/ \E t \in Readings(now) : DbCreateProject(validatedData, t)
                     \/ DbUnavailable("createProject", validatedData, 0)
                  /\ Answer(route, session, 201, 400)

\* A PUT /api/admin/projects/:id that hands the body's own keys to the store.
AdminPutProjectUnparsed(session, id, body) ==
    LET route == "PUT /api/admin/projects/:id"
    IN /\ Loaded
       /\ IF ~AdminAuth(session) THEN Reject(route, session, 401)
          ELSE IF \E f \in DOMAIN body \cap InsertProjectKeys : body[f] = Null
          THEN Reject(route, session, 400)
          ELSE LET validatedData ==
                       IF Falsy(Get(body, "title")) THEN body
                       ELSE Spread(body, [slug |-> SlugOf(body.title)])
               IN /\ \/ \E t \in Readings(now) : MemUpdateProject(id, validatedData, t)
                     \/ \E t \in Readings(now) : DbUpdateProject(id, validatedData, t)
                     \/ DbUnavailable("updateProject", validatedData, id)
                  /\ Answer(route, session, 200, 400)

\* PUT /api/admin/projects/:id: a field that is present must be a string; a
\* title brings its slug.
AdminPutProject(session, id, body) ==
    LET route == "PUT /api/admin/projects/:id"
    IN /\ Loaded
       /\ IF ~AdminAuth(session) THEN Reject(route, session, 401)
          ELSE IF \E f \in DOMAIN body \cap InsertProjectKeys : body[f] = Null
          THEN Reject(route, session, 400)
          ELSE LET parsed == Parsed(body, InsertProjectKeys)
                   validatedData ==
                       IF Falsy(Get(parsed, "title")) THEN parsed
                       ELSE Spread(parsed, [slug |-> SlugOf(parsed.title)])
               IN /\ \/ \E t \in Readings(now) : MemUpdateProject(id, validatedData, t)
                     \/ \E t \in Readings(now) : DbUpdateProject(id, validatedData, t)
                     \/ DbUnavailable("updateProject", validatedData, id)
                  /\ Answer(route, session, 200, 400)

\* DELETE /api/admin/projects/:id
AdminDeleteProject(session, id) ==
    LET route == "DELETE /api/admin/projects/:id"
    IN /\ Loaded
       /\ IF ~AdminAuth(session) THEN Reject(route, session, 401)
          ELSE /\ DeleteProject(id) \/ DbUnavailable("deleteProject", Null, id)
               /\ Answer(route, session, 204, 500)

\* GET /api/admin/media
AdminListMedia(session) ==
    LET route == "GET /api/admin/media"
    IN /\ Loaded
       /\ IF ~AdminAuth(session) THEN Reject(route, session, 401)
          ELSE /\ GetMedia \/ DbUnavailable("getMedia", Null, 0)
               /\ Answer(route, session, 200, 500)

\* What multer leaves in req.file for an uploaded image.
UploadedFile ==
    [filename |-> "f.png", originalname |-> "o.png", mimetype |-> "image/png", size |-> 10]

\* Number.prototype.toString of a file size.
SizeText(size) == IF size = 10 THEN "10" ELSE "0"

\* POST /api/admin/media, with or without a file in the form.
AdminPostMedia(session, hasFile, altText) ==
    LET route == "POST /api/admin/media"
        file == UploadedFile
    IN /\ Loaded
       /\ IF ~AdminAuth(session) THEN Reject(route, session, 401)
          ELSE IF ~hasFile THEN Reject(route, session, 400)
          ELSE LET mediaData ==
                       [filename |-> file.filename,
                        originalName |-> file.originalname,
                        mimeType |-> file.mimetype,
                        size |-> SizeText(file.size),
                        url |-> "/uploads/f.png",
                        altText |-> Or(altText, ""),
                        uploadedBy |-> RequestUser(session)]
               IN /\ \/ \E t \in Readings(now) : MemCreateMedia(mediaData, t)
                     \/ \E t \in Readings(now) : DbCreateMedia(mediaData, t)
                     \/ DbUnavailable("createMedia", mediaData, 0)
                  /\ Answer(route, session, 201, 500)

\* DELETE /api/admin/media/:id
AdminDeleteMedia(session, id) ==
    LET route == "DELETE /api/admin/media/:id"
    IN /\ Loaded
       /\ IF ~AdminAuth(session) THEN Reject(route, session, 401)
          ELSE /\ DeleteMedia(id) \/ DbUnavailable("deleteMedia", Null, id)
               /\ Answer(route, session, 204, 500)

\* POST /api/contact: the schema wants the four fields of the form and drops
\* every other key, a status among them.
PostContact(session, body) ==
    LET route == "POST /api/contact"
    IN /\ Loaded
       /\ IF \E f \in {"name", "email", "subject", "message"} :
                Get(body, f) \in {Undefined, Null}
          THEN Reject(route, session, 400)
          ELSE LET validatedData == Parsed(body, InsertContactKeys)
               IN /\ \/ \E t \in Readings(now) : MemCreateContact(validatedData, t)
                     \/ \E t \in Readings(now) : DbCreateContact(validatedData, t)
                     \/ DbUnavailable("createContact", validatedData, 0)
                  /\ Answer(route, session, 201, 400)

\* GET /api/admin/contacts
AdminListContacts(session) ==
    LET route == "GET /api/admin/contacts"
    IN /\ Loaded
       /\ IF ~AdminAuth(session) THEN Reject(route, session, 401)
          ELSE /\ GetContacts \/ DbUnavailable("getContacts", Null, 0)
               /\ Answer(route, session, 200, 500)

\* Request bodies of the project routes.
ProjectBody(title) ==
    [title |-> title, description |-> "d", content |-> "c", category |-> "Web"]

PostBodies ==
    {ProjectBody("A"),
     Spread(ProjectBody("A!"), [status |-> "published"]),
     [description |-> "d", content |-> "c", category |-> "Web"]}

PutBodies == {[status |-> "published"], [title |-> "b 7"], [title |-> Null]}

\* ------------------------------------------- the admin project endpoints
\* Creating and changing projects over HTTP, on either store.
NextAdminProjects ==
    \/ LoadSample
    \/ AuthUser("loggedIn")
    \/ \E session \in {"loggedIn", "loggedOut"} : \E body \in PostBodies :
          AdminPostProject(session, body)
    \/ \E session \in {"loggedIn", "loggedOut"} : \E id \in CallerIds : \E body \in PutBodies :
          AdminPutProject(session, id, body)

SpecAdminProjects == InitApp /\ [][NextAdminProjects]_vars

\* ---------------------------------------------------- the admin endpoints
\* Every /api/admin route, with each kind of session, one body each, and the
\* first project callers create and the first media record as targets.
NextAdmin ==
    \/ LoadSample
    \/ \E session \in Sessions : AdminListProjects(session)
    \/ \E session \in Sessions : AdminShowProject(session, samples + 1)
    \/ \E session \in Sessions : AdminPostProject(session, ProjectBody("A"))
    \/ \E session \in Sessions : AdminPutProject(session, samples + 1, [status |-> "published"])
    \/ \E session \in Sessions : AdminDeleteProject(session, samples + 1)
    \/ \E session \in Sessions : AdminListMedia(session)
    \/ \E session \in Sessions : \E hasFile \in BOOLEAN :
          AdminPostMedia(session, hasFile, Undefined)
    \/ \E session \in Sessions : AdminDeleteMedia(session, 1)
    \/ \E session \in Sessions : AdminListContacts(session)

SpecAdmin == InitApp /\ [][NextAdmin]_vars

\* ---------------------------------------------------- the public endpoints
\* The two public project routes and the admin list, over projects a logged-in
\* administrator creates as drafts or published and publishes or withdraws.
NextPublic ==
    \/ LoadSample
    \/ AuthUser("loggedIn")
    \/ \E body \in {ProjectBody("A"), Spread(ProjectBody("A!"), [status |-> "published"])} :
          AdminPostProject("loggedIn", body)
    \/ \E body \in {[status |-> "published"], [status |-> "draft"]} :
          AdminPutProject("loggedIn", samples + 1, body)
    \/ ListProjects("none")
    \/ \E slug \in {"a", "modern-ecommerce-platform"} : ShowProject("none", slug)
    \/ AdminListProjects("loggedIn")

SpecPublic == InitApp /\ [][NextPublic]_vars

\* ------------------------------------------------- media among other calls
\* The media calls, with a call of every other kind between them: a project
\* created, changed and deleted, a profile stored, a contact form sent and
\* marked, and the reads.  The clock stands still.
NextMediaKept ==
    \/ \E d \in MediaInputs : MemCreateMedia(d, now) /\ UNCHANGED appVars
    \/ \E d \in MediaInputs : DbCreateMedia(d, now) /\ UNCHANGED appVars
    \/ \E id \in MediaIds : DeleteMedia(id) /\ UNCHANGED appVars
    \/ GetMedia /\ UNCHANGED appVars
    \/ MemCreateProject(RequiredProject("a"), now, now) /\ UNCHANGED appVars
    \/ DbCreateProject(RequiredProject("a"), now) /\ UNCHANGED appVars
    \/ MemUpdateProject(1, [status |-> "published"], now) /\ UNCHANGED appVars
    \/ DbUpdateProject(1, [status |-> "published"], now) /\ UNCHANGED appVars
    \/ DeleteProject(1) /\ UNCHANGED appVars
    \/ MemUpsertUser([id |-> "u1", email |-> "a@x"], now, now) /\ UNCHANGED appVars
    \/ DbUpsertUser([id |-> "u1", email |-> "a@x"], now) /\ UNCHANGED appVars
    \/ MemCreateContact(RequiredContact, now) /\ UNCHANGED appVars
    \/ DbCreateContact(RequiredContact, now) /\ UNCHANGED appVars
    \/ UpdateContactStatus(1, "read") /\ UNCHANGED appVars
    \/ GetProjects(Undefined) /\ UNCHANGED appVars
    \/ GetUser("u1") /\ UNCHANGED appVars
    \/ GetContacts /\ UNCHANGED appVars

SpecMediaKept == Init /\ [][NextMediaKept]_vars

\* ------------------------------------------------------------ media sizes
\* Payloads of createMedia by their size: InsertMedia types it as a string, and
\* the column is a varchar(50).
SizeInputs ==
    {RequiredMedia, [RequiredMedia EXCEPT !.size = "0"], [RequiredMedia EXCEPT !.size = "-1"],
     [RequiredMedia EXCEPT !.size = "1e3"]}

\* The characters of a size text.
SizeChars(str) ==
    IF str = "10" THEN <<"1", "0">>
    ELSE IF str = "0" THEN <<"0">>
    ELSE IF str = "-1" THEN <<"-", "1">>
    ELSE <<"1", "e", "3">>

\* /^[0-9]+$/: the decimal text of a non-negative integer.
IsByteCount(str) ==
    LET chars == SizeChars(str)
    IN /\ Len(chars) > 0
       /\ \A i \in DOMAIN chars :
             chars[i] \in {"0", "1", "2", "3", "4", "5", "6", "7", "8", "9"}

NextSizes ==
    \/ \E d \in SizeInputs : \E t \in Readings(now) : MemCreateMedia(d, t) /\ UNCHANGED appVars
    \/ \E d \in SizeInputs : \E t \in Readings(now) : DbCreateMedia(d, t) /\ UNCHANGED appVars
    \/ \E id \in MediaIds : DeleteMedia(id) /\ UNCHANGED appVars
    \/ GetMedia /\ UNCHANGED appVars

SpecSizes == Init /\ [][NextSizes]_vars

\* --------------------------------------- users and contacts among deletes
\* Profiles stored and read, contact forms sent, marked and listed, and between
\* them the two deletes of the contract, on a project and a media record.  The
\* clock stands still.
\* Payloads of upsertUser: two identities, and one without an id.
KeptUserInputs ==
    {[id |-> "u1", email |-> "a@x"], [id |-> "u2", email |-> "b@x"], [email |-> "c@x"]}

NextKept ==
    \/ \E d \in KeptUserInputs :
          MemUpsertUser(d, now, now) /\ UNCHANGED appVars
    \/ \E d \in KeptUserInputs :
          DbUpsertUser(d, now) /\ UNCHANGED appVars
    \/ \E id \in {"u1", "u2"} : GetUser(id) /\ UNCHANGED appVars
    \/ MemCreateContact(RequiredContact, now) /\ UNCHANGED appVars
    \/ DbCreateContact(RequiredContact, now) /\ UNCHANGED appVars
    \/ \E id \in ContactIds : UpdateContactStatus(id, "archived") /\ UNCHANGED appVars
    \/ GetContacts /\ UNCHANGED appVars
    \/ MemCreateProject(RequiredProject("a"), now, now) /\ UNCHANGED appVars
    \/ DbCreateProject(RequiredProject("a"), now) /\ UNCHANGED appVars
    \/ DeleteProject(1) /\ UNCHANGED appVars
    \/ MemCreateMedia(RequiredMedia, now) /\ UNCHANGED appVars
    \/ DbCreateMedia(RequiredMedia, now) /\ UNCHANGED appVars
    \/ DeleteMedia(1) /\ UNCHANGED appVars

SpecKept == Init /\ [][NextKept]_vars

\* ------------------------------------------------------- keys and ids
\* Requests whose bodies carry an id of their own, on the store storage.ts
\* exports: a project posted, changed and deleted, a contact form sent and
\* marked, a file uploaded.
NextKeys ==
    \/ LoadSample
    \/ AdminPostProject("loggedIn", Spread(ProjectBody("A"), [id |-> 9]))
    \/ \E id \in {1, samples + 1} :
       \E body \in {[id |-> 9, status |-> "published"], [title |-> "b 7"]} :
          AdminPutProject("loggedIn", id, body)
    \/ AdminDeleteProject("loggedIn", samples + 1)
    \/ PostContact("none", Spread(RequiredContact, [id |-> 9]))
    \/ /\ Loaded
       /\ \E id \in ContactIds : UpdateContactStatus(id, "read")
       /\ UNCHANGED appVars
    \/ AdminPostMedia("loggedIn", TRUE, Undefined)

\* A server process started at the last reading of the clock: every timestamp
\* is that reading.
InitLate ==
    /\ impl \in {"mem", "db"}
    /\ now = MaxTime
    /\ users = << >>
    /\ projects = << >>
    /\ media = << >>
    /\ contacts = << >>
    /\ nextProjectId = 1
    /\ nextMediaId = 1
    /\ nextContactId = 1
    /\ issued = [projects |-> << >>, media |-> << >>, contacts |-> << >>]
    /\ last = Call("init", Null, 0, "none", Null)
    /\ env \in {"development", "production"}
    /\ samples = 0
    /\ res = NoResponse

\* The store storage.ts exports, in such a process.
InitLateServed == InitLate /\ impl = "mem"

SpecKeys == InitLateServed /\ [][NextKeys]_vars

\* ------------------------------------------------- slugs over the admin API
\* Projects posted with and without a slug in the body, and changed by bodies
\* that carry a title, a slug, or a status.
NextSlugs ==
    \/ LoadSample
    \/ \E body \in {ProjectBody("A"), Spread(ProjectBody("A!"), [slug |-> "x"])} :
          AdminPostProject("loggedIn", body)
    \/ \E body \in {[title |-> "b 7"], [slug |-> "x"], [status |-> "published"]} :
          AdminPutProject("loggedIn", samples + 1, body)

SpecSlugs == InitApp /\ [][NextSlugs]_vars

\* ------------------------------------------------------ rejected requests
\* Bodies the project routes turn down: no title, a required field missing, a
\* field that is not a string.
InvalidPostBodies ==
    {[description |-> "d", content |-> "c", category |-> "Web"],
     [title |-> "A", content |-> "c", category |-> "Web"],
     [title |-> "A", description |-> Null, content |-> "c", category |-> "Web"]}

InvalidPutBodies == {[title |-> Null], [status |-> Null, title |-> "A"]}

\* The administrator's requests, well-formed and not, on either store; ids and
\* rejections do not depend on the clock, which stands at its last reading.
NextRejected ==
    \/ LoadSample
    \/ AuthUser("loggedIn")
    \/ \E body \in {ProjectBody("A")} \cup InvalidPostBodies :
          AdminPostProject("loggedIn", body)
    \/ \E body \in {[status |-> "published"]} \cup InvalidPutBodies :
          AdminPutProject("loggedIn", samples + 1, body)
    \/ \E hasFile \in BOOLEAN : AdminPostMedia("loggedIn", hasFile, Undefined)

SpecRejected == InitLate /\ [][NextRejected]_vars

\* ------------------------------------------- sample data and first requests
\* The module's start and the administrator's first requests on the store
\* storage.ts exports: a project posted, the first sample withdrawn and
\* deleted, the public list read.
NextSamples ==
    \/ LoadSample
    \/ AdminPostProject("loggedIn", ProjectBody("A"))
    \/ AdminPutProject("loggedIn", 1, [status |-> "draft"])
    \/ AdminDeleteProject("loggedIn", 1)
    \/ ListProjects("none")

SpecSamples == InitServed /\ [][NextSamples]_vars

\* ================================================================== claims
Entities == {"projects", "media", "contacts"}

Collection(e) == IF e = "projects" THEN projects ELSE IF e = "media" THEN media ELSE contacts

Range(seq) == {seq[i] : i \in DOMAIN seq}

\* C1: an id a create call returned is never returned by a later create call of
\* the same entity type, also after the record was deleted, and no two live
\* records of one type share an id.
IdsNeverReused ==
    \A e \in Entities :
        /\ \A i, j \in DOMAIN issued[e] : i # j => issued[e][i] # issued[e][j]
        /\ \A k1, k2 \in DOMAIN Collection(e) :
              k1 # k2 => Collection(e)[k1].id # Collection(e)[k2].id
        /\ \A k \in DOMAIN Collection(e) : Collection(e)[k].id \in Range(issued[e])

\* A createProject has returned after the project created before it was deleted.
CreateAfterDelete ==
    /\ last.op = "createProject"
    /\ last.err = "none"
    /\ Len(issued.projects) = 2
    /\ issued.projects[1] \notin DOMAIN projects
    /\ Len(issued.media) >= 1
    /\ Len(issued.contacts) >= 1

\* C2: no two stored projects have the same slug.
SlugsUnique ==
    \A k1, k2 \in DOMAIN projects : k1 # k2 => projects[k1].slug # projects[k2].slug

\* C3: an upsertUser that supplies only a changed email for a stored id keeps the
\* stored firstName, lastName and createdAt and strictly increases updatedAt.
UpsertKeepsProfile ==
    [][(/\ last'.op = "upsertUser"
        /\ last'.err = "none"
        /\ DOMAIN last'.arg = {"id", "email"}
        /\ last'.arg.id \in DOMAIN users
        /\ last'.arg.email # users[last'.arg.id].email)
       => LET before == users[last'.arg.id]
              after == users'[last'.arg.id]
          IN /\ after.email = last'.arg.email
             /\ after.firstName = before.firstName
             /\ after.lastName = before.lastName
             /\ after.createdAt = before.createdAt
             /\ after.updatedAt > before.updatedAt]_vars

\* C4: deleteProject and deleteMedia never raise, and on an id that is not stored
\* (deleted before, or never assigned) they leave the whole store, the id
\* counters included, as it was.
DeleteIdempotent ==
    [][/\ last'.op = "deleteProject" =>
            /\ last'.err = "none"
            /\ last'.id \notin DOMAIN projects => UNCHANGED store
       /\ last'.op = "deleteMedia" =>
            /\ last'.err = "none"
            /\ last'.id \notin DOMAIN media => UNCHANGED store]_vars

\* deleteProject was called on an id that had been assigned and was already
\* removed, while a media record is stored.
SecondDelete ==
    /\ last.op = "deleteProject"
    /\ last.err = "none"
    /\ ~last.hit
    /\ last.id \in Range(issued.projects)
    /\ media # << >>

\* C5: getProjects("published") returns exactly the stored projects whose status
\* is "published", each once, newest first.
PublishedListExact ==
    (last.op = "getProjects" /\ last.arg = "published")
    => /\ Range(last.ret) = {projects[k] : k \in {x \in DOMAIN projects :
                                                  projects[x].status = "published"}}
       /\ \A i, j \in DOMAIN last.ret : i # j => last.ret[i] # last.ret[j]
       /\ \A i, j \in DOMAIN last.ret : i < j => last.ret[i].createdAt >= last.ret[j].createdAt

\* getProjects("published") left a draft out of its answer.
PublishedListOmitsDraft ==
    /\ last.op = "getProjects"
    /\ last.arg = "published"
    /\ Len(last.ret) = 1
    /\ \E k \in DOMAIN projects : projects[k].status = "draft"

\* C6: createContact stores and returns a record whose status is "new", whatever
\* status the payload carries.
ContactCreatedNew ==
    (last.op = "createContact" /\ last.err = "none")
    => /\ last.ret.status = "new"
       /\ contacts[last.ret.id] = last.ret

\* C7: updateProject on an id that is not stored fails with NotFoundError and
\* leaves the store unchanged.
UpdateUnknownFails ==
    [][(last'.op = "updateProject" /\ last'.id \notin DOMAIN projects)
       => (last'.err = "NotFoundError" /\ UNCHANGED store)]_vars

\* C8: updateProject on a stored id sets the fields of the payload and updatedAt,
\* and keeps every other field of that project (id and createdAt included),
\* every other project, the other collections and the counters.
UpdateChangesOnlyPayload ==
    [][(last'.op = "updateProject" /\ last'.id \in DOMAIN projects /\ last'.err = "none")
       => LET id == last'.id
              projectData == last'.arg
          IN /\ DOMAIN projects' = DOMAIN projects
             /\ \A k \in DOMAIN projects \ {id} : projects'[k] = projects[k]
             /\ DOMAIN projects'[id] = DOMAIN projects[id]
             /\ \A f \in DOMAIN projectData : projects'[id][f] = projectData[f]
             /\ \A f \in DOMAIN projects[id] \ (DOMAIN projectData \cup {"updatedAt"}) :
                   projects'[id][f] = projects[id][f]
             /\ projects'[id].updatedAt = now'
             /\ last'.ret = projects'[id]
             /\ UNCHANGED <<users, media, contacts,
                            nextProjectId, nextMediaId, nextContactId>>]_vars

\* updateProject retitled one of two stored projects, which keeps the status,
\* tags and creation time it had.
UpdateKeptOtherFields ==
    /\ last.op = "updateProject"
    /\ last.hit
    /\ last.err = "none"
    /\ last.arg = [title |-> "T2", slug |-> "b"]
    /\ Cardinality(DOMAIN projects) = 2
    /\ projects[last.id].title = "T2"
    /\ projects[last.id].status = "published"
    /\ projects[last.id].tags = "[t]"
    /\ projects[last.id].updatedAt > projects[last.id].createdAt

\* C9: upsertUser with a missing or empty id fails with ValidationError and
\* leaves the users unchanged.
UpsertWithoutIdFails ==
    [][(last'.op = "upsertUser" /\ Falsy(Get(last'.arg, "id")))
       => (last'.err = "ValidationError" /\ users' = users)]_vars

\* C10: createProject without status, tags, authorId and featuredImage stores
\* status "draft" and no tags, author or image, and a created project's
\* createdAt and updatedAt are equal.
CreateDefaultsAndStamps ==
    (last.op = "createProject" /\ last.err = "none")
    => /\ projects[last.ret.id] = last.ret
       /\ last.ret.createdAt = last.ret.updatedAt
       /\ DOMAIN last.arg \cap {"status", "tags", "authorId", "featuredImage"} = {}
          => /\ last.ret.status = "draft"
             /\ last.ret.tags = Null
             /\ last.ret.authorId = Null
             /\ last.ret.featuredImage = Null

\* C11: every stored project's status is "draft" or "published", after any
\* sequence of createProject and updateProject calls.
ProjectStatusInEnum ==
    \A k \in DOMAIN projects : projects[k].status \in {"draft", "published"}

\* C12: updateContactStatus never fails; on an id that is not stored it leaves
\* the store unchanged, and on a stored id it changes only the status of that
\* contact: its other fields, every other contact, the other collections and
\* the counters stay as they were.
ContactStatusOnly ==
    [][(last'.op = "updateContactStatus")
       => /\ last'.err = "none"
          /\ last'.id \notin DOMAIN contacts => UNCHANGED store
          /\ last'.id \in DOMAIN contacts =>
                LET id == last'.id
                IN /\ DOMAIN contacts' = DOMAIN contacts
                   /\ \A k \in DOMAIN contacts \ {id} : contacts'[k] = contacts[k]
                   /\ DOMAIN contacts'[id] = DOMAIN contacts[id]
                   /\ contacts'[id].status = last'.arg
                   /\ \A f \in DOMAIN contacts[id] \ {"status"} :
                         contacts'[id][f] = contacts[id][f]
                   /\ UNCHANGED <<users, projects, media,
                                  nextProjectId, nextMediaId, nextContactId>>]_vars

\* updateContactStatus marked the first of two stored contacts as read; the
\* contact keeps the name, email, subject, message and creation time it had.
ContactMarkedRead ==
    /\ last.op = "updateContactStatus"
    /\ last.hit
    /\ last.arg = "read"
    /\ DOMAIN contacts = {1, 2}
    /\ last.id = 1
    /\ contacts[1].status = "read"
    /\ contacts[1].name = "n"
    /\ contacts[1].email = "e@x"
    /\ contacts[1].subject = "s"
    /\ contacts[1].message = "m"
    /\ contacts[1].createdAt < contacts[2].createdAt

\* C13: every stored contact submission's status is "new", "read" or "replied",
\* after any sequence of createContact and updateContactStatus calls.
ContactStatusInEnum ==
    \A k \in DOMAIN contacts : contacts[k].status \in {"new", "read", "replied"}

\* C20: getProjects() without a filter, getMedia() and getContacts() each return
\* every stored record of their collection exactly once, newest first by
\* createdAt, and leave the store unchanged.
ListsCompleteNewestFirst ==
    [][(\/ last'.op = "getProjects" /\ last'.arg = Undefined
        \/ last'.op = "getMedia"
        \/ last'.op = "getContacts")
       => LET coll == IF last'.op = "getProjects" THEN projects
                      ELSE IF last'.op = "getMedia" THEN media ELSE contacts
              ret == last'.ret
          IN /\ last'.err = "none"
             /\ Range(ret) = {coll[k] : k \in DOMAIN coll}
             /\ Len(ret) = Cardinality(DOMAIN coll)
             /\ \A i, j \in DOMAIN ret : i < j => ret[i].createdAt >= ret[j].createdAt
             /\ UNCHANGED store]_vars

\* getMedia returned two media records, the one created later first, while
\* projects and contacts are stored too.
MediaListedNewestFirst ==
    /\ last.op = "getMedia"
    /\ Len(last.ret) = 2
    /\ last.ret[1].id = 2
    /\ last.ret[1].createdAt > last.ret[2].createdAt
    /\ projects # << >>
    /\ contacts # << >>

\* C14: whatever a call of one store returns or raises, the other store returns
\* or raises the same when given the same call in the same state.
StoresAnswerAlike ==
    [][(last'.op \in ComparedCalls)
       => [err |-> last'.err, ret |-> last'.ret]
             \in (IF impl = "mem" THEN DbAnswers(last'.op, last'.arg, last'.id, now)
                  ELSE MemAnswers(last'.op, last'.arg, last'.id, now))]_vars

\* C16: the derived slug is the title lower-cased, with each maximal run of
\* whitespace turned into exactly one hyphen and every character outside
\* [a-z0-9-] removed: the characters of the title that survive are the first of
\* each whitespace run (as a hyphen) and the characters whose lower-case form is
\* in [a-z0-9-], in the title's order; so the slug has only [a-z0-9-].
SlugIsNormalisedTitle ==
    (last.op = "slug")
    => LET title == last.arg
           slug == last.ret
           low(i) == LowerChar(title[i])
           RunStart(i) == IsWhitespace(low(i)) /\ (i = 1 \/ ~IsWhitespace(low(i - 1)))
           Kept == {i \in 1..Len(title) : RunStart(i) \/ low(i) \in SlugChars}
           Rank(i) == Cardinality({j \in Kept : j <= i})
       IN /\ Len(slug) = Cardinality(Kept)
          /\ \A i \in Kept :
                slug[Rank(i)] = IF IsWhitespace(low(i)) THEN "-" ELSE low(i)
          /\ \A k \in 1..Len(slug) : slug[k] \in SlugChars

\* The slug of a title made of a capital, a run of two whitespace characters
\* and punctuation was derived.
SlugOfSpacedTitle ==
    /\ last.op = "slug"
    /\ last.arg = <<"A", " ", "\t">>
    /\ last.ret = <<"a", "-">>

\* C17: the example scenario on the served store.  While the project of the
\* first createProject call a caller made is the only one callers have created,
\* that project has id 1 and was returned with status "draft"; after
\* updateProject(1, {status: "published"}) its updatedAt is later than its
\* createdAt and getProjects("published") returns exactly that project; once it
\* is deleted getProjects() returns the empty list, and deleteProject raises no
\* error.
ExampleScenario ==
    LET made == Len(issued.projects) - samples
        pid == issued.projects[Len(issued.projects)]
    IN (Loaded /\ made = 1)
       => /\ pid = 1
          /\ (last.op = "createProject" /\ last.err = "none") => last.ret.status = "draft"
          /\ (last.op = "updateProject" /\ last.id = pid /\ last.hit /\ last.err = "none")
                => /\ projects[pid].status = "published"
                   /\ projects[pid].updatedAt > projects[pid].createdAt
          /\ (/\ last.op = "getProjects"
              /\ last.arg = "published"
              /\ pid \in DOMAIN projects
              /\ projects[pid].status = "published")
                => last.ret = <<projects[pid]>>
          /\ (last.op = "getProjects" /\ last.arg = Undefined /\ pid \notin DOMAIN projects)
                => last.ret = << >>
          /\ last.op = "deleteProject" => last.err = "none"

\* C15: the responses of POST and PUT /api/admin/projects keep the kind of the
\* failure: 4xx when the store raised a validation or conflict error, 404 when
\* the id of an update is not stored, 5xx when the store could not be reached.
ErrorKindsKept ==
    (res.route \in {"POST /api/admin/projects", "PUT /api/admin/projects/:id"}
        /\ res.calls = 1)
    => /\ last.err \in {"ValidationError", "ConflictError"} => res.status \in 400..499
       /\ (last.op = "updateProject" /\ ~last.hit /\ last.err # "TransportError")
             => res.status = 404
       /\ last.err = "TransportError" => res.status \in 500..599

\* C18: a request to an /api/admin endpoint that is not authenticated (in
\* development: whose session is marked loggedOut; otherwise: that carries no
\* logged-in user) is answered 401 without a call to the store.
AdminNeedsLogin ==
    (/\ res.route \in {"GET /api/admin/projects", "GET /api/admin/projects/:id",
                       "POST /api/admin/projects", "PUT /api/admin/projects/:id",
                       "DELETE /api/admin/projects/:id", "GET /api/admin/media",
                       "POST /api/admin/media", "DELETE /api/admin/media/:id",
                       "GET /api/admin/contacts"}
     /\ IF env = "development" THEN res.session = "loggedOut"
        ELSE res.session # "loggedIn")
    => (res.status = 401 /\ res.calls = 0)

Place(list, id) == CHOOSE i \in DOMAIN list : list[i].id = id

\* MemStorage lists records of equal createdAt by ascending key, whatever
\* updateProject did to them.
MemTiesByKey ==
    [][(impl = "mem" /\ last'.op \in {"getProjects", "getMedia", "getContacts"})
       => \A i, j \in DOMAIN last'.ret :
             (i < j /\ last'.ret[i].createdAt = last'.ret[j].createdAt)
                => last'.ret[i].id < last'.ret[j].id]_vars

\* C21: two calls of the same list operation with nothing between them return
\* the records that share a createdAt in the same relative order.
TiesKeepTheirOrder ==
    [][(/\ last.op \in {"getProjects", "getMedia", "getContacts"}
        /\ last'.op = last.op
        /\ last'.arg = last.arg)
       => \A a, b \in {r.id : r \in Range(last.ret)} :
             LET first == last.ret
                 second == last'.ret
             IN first[Place(first, a)].createdAt = first[Place(first, b)].createdAt
                   => (Place(first, a) < Place(first, b)
                          <=> Place(second, a) < Place(second, b))]_vars

\* C22: a createMedia that returns has stored, under a new id, a record with the
\* payload's filename, originalName, mimeType, size and url, and with null
\* altText and uploadedBy when the payload carries none; no step changes a stored
\* media record, and only deleteMedia of its id removes it.
MediaImmutable ==
    [][/\ (last'.op = "createMedia" /\ last'.err = "none")
          => LET m == last'.ret
                 d == last'.arg
             IN /\ m.id \notin DOMAIN media
                /\ m.id \in DOMAIN media' /\ media'[m.id] = m
                /\ \A f \in {"filename", "originalName", "mimeType", "size", "url"} :
                      m[f] = d[f]
                /\ "altText" \notin DOMAIN d => m.altText = Null
                /\ "uploadedBy" \notin DOMAIN d => m.uploadedBy = Null
       /\ \A k \in DOMAIN media :
             \/ k \in DOMAIN media' /\ media'[k] = media[k]
             \/ last'.op = "deleteMedia" /\ last'.id = k /\ k \notin DOMAIN media']_vars

\* The second media record has been deleted after calls on the other
\* collections, and the first, created from the required fields alone, is there.
MediaKeptAfterOtherCalls ==
    /\ last.op = "deleteMedia" /\ last.id = 2 /\ last.hit
    /\ 1 \in DOMAIN media
    /\ media[1].altText = Null /\ media[1].uploadedBy = Null
    /\ media[1].size = "10"
    /\ 1 \in DOMAIN projects /\ projects[1].status = "published"
    /\ 1 \in DOMAIN contacts /\ contacts[1].status = "read"
    /\ "u1" \in DOMAIN users

\* C23: the size of every stored media record is the decimal text of a
\* non-negative integer.
MediaSizeIsByteCount ==
    \A k \in DOMAIN media : IsByteCount(media[k].size)

\* C24: no step removes a user or a contact submission: a profile an upsertUser
\* returned and a contact a createContact returned are stored under their id, a
\* stored key stays stored, getUser returns the record of a stored id and
\* getContacts lists a record for every stored contact id.
UsersAndContactsKept ==
    [][/\ DOMAIN users \subseteq DOMAIN users'
       /\ DOMAIN contacts \subseteq DOMAIN contacts'
       /\ (last'.op = "upsertUser" /\ last'.err = "none") => last'.ret.id \in DOMAIN users'
       /\ (last'.op = "createContact" /\ last'.err = "none")
             => last'.ret.id \in DOMAIN contacts'
       /\ (last'.op = "getUser" /\ last'.arg \in DOMAIN users)
             => last'.ret = users[last'.arg] /\ last'.ret.id = last'.arg
       /\ last'.op = "getContacts"
             => {last'.ret[i].id : i \in DOMAIN last'.ret} = DOMAIN contacts]_vars

\* getContacts lists both contacts, one of them archived, beside a stored
\* profile, after a project and a media record were created and deleted.
ContactsListedAfterDeletes ==
    /\ last.op = "getContacts"
    /\ {last.ret[i].id : i \in DOMAIN last.ret} = {1, 2}
    /\ \E i \in DOMAIN last.ret : last.ret[i].status = "archived"
    /\ "u1" \in DOMAIN users
    /\ projects = << >> /\ nextProjectId > 1
    /\ media = << >> /\ nextMediaId > 1

\* C25: a request a handler has finished with has been sent a response; GET
\* /api/admin/projects from a logged-in user outside development is answered 200
\* with the project list.
EveryRequestAnswered ==
    /\ res.route # "none" => res.status \in 100..599
    /\ (res.route = "GET /api/admin/projects" /\ env # "development"
           /\ res.session = "loggedIn")
          => res.status = 200 /\ res.calls = 1

\* C26: a MemStorage call on one entity type leaves the collections and counters
\* of the other types unchanged, and no delete or update changes a counter.
MemCallsKeepToTheirEntity ==
    [][impl = "mem" =>
         /\ last'.op \in {"createProject", "updateProject", "deleteProject", "getProjects"}
               => UNCHANGED <<users, media, contacts, nextMediaId, nextContactId>>
         /\ last'.op \in {"createMedia", "deleteMedia", "getMedia"}
               => UNCHANGED <<users, projects, contacts, nextProjectId, nextContactId>>
         /\ last'.op \in {"createContact", "updateContactStatus", "getContacts"}
               => UNCHANGED <<users, projects, media, nextProjectId, nextMediaId>>
         /\ last'.op \in {"upsertUser", "getUser"}
               => UNCHANGED <<projects, media, contacts,
                              nextProjectId, nextMediaId, nextContactId>>
         /\ last'.op \in {"updateProject", "deleteProject", "deleteMedia",
                           "updateContactStatus"}
               => UNCHANGED <<nextProjectId, nextMediaId, nextContactId>>]_vars

\* MemStorage has deleted its newest project while a profile, a media record and
\* a contact are stored.
NewestProjectDeletedAmongOthers ==
    /\ impl = "mem"
    /\ last.op = "deleteProject" /\ last.hit /\ last.id = nextProjectId - 1
    /\ users # << >> /\ media # << >> /\ contacts # << >>

\* C27: in MemStorage every record is stored under its own id, below the counter
\* of its entity type, and updateProject and updateContactStatus leave the id of
\* the record they change as it was.
KeysAreIds ==
    /\ [](impl = "mem" =>
             /\ \A k \in DOMAIN projects : projects[k].id = k /\ k < nextProjectId
             /\ \A k \in DOMAIN media : media[k].id = k /\ k < nextMediaId
             /\ \A k \in DOMAIN contacts : contacts[k].id = k /\ k < nextContactId)
    /\ [][/\ (last'.op = "updateProject" /\ last'.err = "none")
             => (/\ last'.id \in DOMAIN projects
                 /\ projects'[last'.id].id = projects[last'.id].id)
          /\ (last'.op = "updateContactStatus" /\ last'.hit)
             => (contacts'[last'.id].id = contacts[last'.id].id)]_vars

\* A PUT whose body carried an id of 9 has published the first sample project,
\* and a contact sent with an id of 9 has been marked read.
PutWithIdPublished ==
    /\ res.route = "PUT /api/admin/projects/:id" /\ res.status = 200
    /\ last.op = "updateProject" /\ last.id = 1
    /\ last.arg = [status |-> "published"]
    /\ 1 \in DOMAIN contacts /\ contacts[1].status = "read"
    /\ media # << >>

\* C28: every project created through POST /api/admin/projects, whatever PUT
\* requests changed it since, has the slug derived from its title.
ApiSlugsDerived ==
    \A k \in DOMAIN projects :
        k > samples => projects[k].slug = SlugOf(projects[k].title)

\* C29: a POST /api/admin/projects with a body that has no title or fails the
\* schema, a PUT with a body that fails the schema and a POST /api/admin/media
\* without a file are answered 4xx before any storage call: maps and counters
\* stay as they were, so the next create gets the id it would have got.
RejectedConsumeNothing ==
    [][(\/ \E body \in InvalidPostBodies : AdminPostProject("loggedIn", body)
        \/ \E body \in InvalidPutBodies : AdminPutProject("loggedIn", samples + 1, body)
        \/ AdminPostMedia("loggedIn", FALSE, Undefined))
       => /\ res'.status \in 400..499
          /\ res'.calls = 0
          /\ UNCHANGED <<store, issued, last>>]_vars

\* An upload without a file has been turned down after one upload and one
\* project were stored, and the counters are where those two left them.
UploadWithoutFileRejected ==
    /\ res.route = "POST /api/admin/media" /\ res.status = 400 /\ res.calls = 0
    /\ last.op = "createMedia" /\ last.err = "none"
    /\ nextMediaId = 2 /\ DOMAIN media = {1}
    /\ nextProjectId = samples + 2 /\ samples + 1 \in DOMAIN projects

\* C30: when initializeSampleData has made its last call the store holds
\* exactly the projects 1, 2 and 3, all published, with three different slugs;
\* a createProject made for a request runs after that, draws an id above 3, and
\* the first of them draws 4.
SamplesLoadFirst ==
    [][/\ (samples' = Len(SampleProjects) /\ samples' # samples)
          => /\ DOMAIN projects' = {1, 2, 3}
             /\ \A k \in {1, 2, 3} : projects'[k].id = k /\ projects'[k].status = "published"
             /\ Cardinality({projects'[k].slug : k \in {1, 2, 3}}) = 3
       /\ (nextProjectId' # nextProjectId /\ samples' = samples)
          => /\ samples = Len(SampleProjects)
             /\ last'.op = "createProject"
             /\ last'.ret.id > 3
             /\ Len(issued.projects) = 3 => last'.ret.id = 4]_vars

\* The first project posted has been stored as project 4 beside the second and
\* third sample, the first sample having been deleted.
FirstPostedIsFourth ==
    /\ res.route = "POST /api/admin/projects" /\ res.status = 201
    /\ last.op = "createProject" /\ last.ret.id = 4
    /\ issued.projects = <<1, 2, 3, 4>>
    /\ DOMAIN projects = {2, 3, 4}
    /\ projects[4].slug = "a"

====
